---- MODULE Spec2Model ----
(***************************************************************************)
(* Model of the network layer of iae-chatbot-mistral:                      *)
(*   - fetchWithRetry (utils/fetchWithRetry, the retrying HTTP executor),  *)
(*   - ConversationService.startStream / parseEventStream,                 *)
(*   - WorkflowCoordinator.executeWorkflow / processStreamEvent.           *)
(* One behaviour of Spec is one call: either a direct call of             *)
(* fetchWithRetry with caller-chosen options, or one executeWorkflow send  *)
(* that goes through startStream -> fetchWithRetry -> parseEventStream,    *)
(* where the stream is seen as the frames it delivers.                     *)
(* One behaviour of DecoderSpec is one call of parseEventStream on a byte  *)
(* stream that the channel delivers in chunks of any sizes.                *)
(* One behaviour of CoordinatorSpec is the life of one WorkflowCoordinator *)
(* over an injected ConversationService, with its state objects and their  *)
(* arrays kept by identity: two sends made one after the other.            *)
(* OverlapSpec lets the second send begin while the first is under way,    *)
(* and CallerSpec adds a caller that writes in what getWorkflowState       *)
(* returned.                                                               *)
(* FetchLiveSpec is a direct call of fetchWithRetry in which every await   *)
(* settles, for the termination of the retry loop.                        *)
(***************************************************************************)
EXTENDS Integers, Sequences, FiniteSets, TLC

VARIABLES
    runtime,     \* whose Response objects fetch resolves with: "standard" (Fetch standard) | "stub" (jest.setup.js)
    caller,      \* "fetch": fetchWithRetry called directly; "workflow": through executeWorkflow;
                 \* "decoder", "coordinator": parseEventStream, the coordinator, on their own
    opts,        \* the destructured options of fetchWithRetry: retries, backoff, maxBackoff
    pc,          \* position of fetchWithRetry: "idle" | "loop" | "fetching" | "body" | "errbody" | "done"
    attempt,     \* the local attempt counter
    calls,       \* number of fetch(url, ...) calls issued so far
    timerArmed,  \* the setTimeout(() => controller.abort(), timeout) of the attempt is pending
    resp,        \* the Response of the current attempt, <<>> when none
    wait,        \* the last inter-attempt wait, <<>> when none
    prevWait,    \* the wait before the last one, <<>> when none
    result,      \* what fetchWithRetry returned (or that it rejected), <<>> while running
    persistent,  \* <<>> before the first failure, <<k>> while every failure so far was of kind k, <<"mixed">> otherwise
    request,     \* the request given to executeWorkflow
    wfpc,        \* position of executeWorkflow: "idle" | "sending" | "streaming" | "done"
    ws,          \* this.currentWorkflowState
    updates,     \* the states onUpdate was called with, as they were at the call
    wfResult,    \* what executeWorkflow returned, <<>> while running
    stream,      \* the bytes the server writes to the body of the response
    sent,        \* how many of them the byte channel has delivered
    channel,     \* the ReadableStream: "open" | "closed" | "errored" | "cancelled"
    reader,      \* the reader parseEventStream took: locked, read pending, releaseLock calls
    carry,       \* the bytes of an unfinished character kept by the TextDecoder
    buffer,      \* the local buffer of parseEventStream
    parts,       \* the frames of the current chunk the for loop has still to visit
    log,         \* the frames decoded so far: raw text, event, whether it was yielded
    dpc,         \* position of the generator: "none" | "created" | "reading" | "frames" | "yielded" | "returned" | "threw" | "cancelled"
    cuts,        \* the kinds of place at which the channel has cut the stream so far
    objects,     \* the WorkflowState objects created so far, by identity; array fields hold identities of arrays
    arrays,      \* the arrays created so far, by identity
    currentWorkflowState,  \* this.currentWorkflowState: the identity of an object
    runs,        \* the calls of executeWorkflow on the coordinator: position, events delivered, onUpdate calls, result
    ended,       \* the identities of the objects that were current when a run ended
    copy         \* what getWorkflowState returned to a caller, <<>> when nothing

wfVars == <<request, wfpc, ws, updates, wfResult>>

fetchVars == <<opts, pc, attempt, calls, timerArmed, resp, wait, prevWait, result, persistent>>

decVars == <<stream, sent, channel, reader, carry, buffer, parts, log, dpc, cuts>>

coVars == <<objects, arrays, currentWorkflowState, runs, ended, copy>>

-----------------------------------------------------------------------------
(* Bounds of the model *)

\* largest retry budget tried
MaxRetries == 3
\* retry budgets down to -NegRetries are tried
NegRetries == 1
\* longest event stream of one send
MaxEvents == 2

-----------------------------------------------------------------------------
(* FetchErrorType *)

NETWORK == "network"
TIMEOUT == "timeout"
SERVER == "server"
CLIENT == "client"
RATE_LIMIT == "rate_limit"
PARSE == "parse"
ABORT == "abort"
UNKNOWN == "unknown"

FetchErrorType == {NETWORK, TIMEOUT, SERVER, CLIENT, RATE_LIMIT, PARSE, ABORT, UNKNOWN}

\* an optional value (T | undefined) is a sequence of length 0 or 1
None == <<>>
Some(x) == <<x>>
IsSome(o) == Len(o) > 0
Val(o) == o[1]

Min(a, b) == IF a <= b THEN a ELSE b
Max(a, b) == IF a >= b THEN a ELSE b

RECURSIVE Pow2(_)
Pow2(n) == IF n <= 0 THEN 1 ELSE 2 * Pow2(n - 1)

\* Math.ceil(ms / 1000) for an integer number of milliseconds
CeilSeconds(ms) == IF ms >= 0 THEN (ms + 999) \div 1000 ELSE 0 - ((0 - ms) \div 1000)

-----------------------------------------------------------------------------
(* defaultOptions *)

DefaultRetries == 3
DefaultBackoff == 500
DefaultMaxBackoff == 30000

defaultOptions == [retries |-> DefaultRetries, backoff |-> DefaultBackoff, maxBackoff |-> DefaultMaxBackoff]

\* the options a direct caller may pass; the ceiling of 800 ms is one the backoff
\* reaches within the retry budgets tried
Options ==
    [retries : (0 - NegRetries)..MaxRetries,
     backoff : {DefaultBackoff},
     maxBackoff : {800, DefaultMaxBackoff}]

-----------------------------------------------------------------------------
(* The server's answers *)

\* Retry-After header: absent, delta-seconds, an HTTP-date (ms from now), or unparsable text
RetryAfterHeaders ==
    {[kind |-> "absent", n |-> 0],
     [kind |-> "seconds", n |-> 0],
     [kind |-> "seconds", n |-> 1],
     [kind |-> "seconds", n |-> 60],
     [kind |-> "date", n |-> 1500],
     [kind |-> "date", n |-> 0 - 5000],
     [kind |-> "garbage", n |-> 0]}

NoHeader == [kind |-> "absent", n |-> 0]

ErrorStatuses == {404, 408, 413, 429, 500, 502, 503, 504}

\* the Retry-After headers a status is answered with
HeadersFor(s) ==
    IF s = 429 THEN RetryAfterHeaders
    ELSE IF s = 503 THEN {NoHeader, [kind |-> "seconds", n |-> 60]}
    ELSE {NoHeader}

\* Responses with a non-ok status.  bodyOk: response.json()/text() succeeds.
ErrorResponses ==
    UNION { { [status |-> s, ok |-> FALSE, ctype |-> "json", retryAfter |-> h, bodyOk |-> TRUE,
               hasBody |-> TRUE] : h \in HeadersFor(s) } : s \in ErrorStatuses }
    \cup
    { [status |-> s, ok |-> FALSE, ctype |-> "text", retryAfter |-> NoHeader, bodyOk |-> FALSE,
       hasBody |-> TRUE] : s \in {400} }

\* Responses with status 200; an event-stream response may come without a body
OkResponses ==
    { [status |-> 200, ok |-> TRUE, ctype |-> c, retryAfter |-> NoHeader, bodyOk |-> b,
       hasBody |-> TRUE] : c \in {"json", "text", "binary"}, b \in BOOLEAN }
    \cup
    { [status |-> 200, ok |-> TRUE, ctype |-> "sse", retryAfter |-> NoHeader, bodyOk |-> TRUE,
       hasBody |-> hb] : hb \in BOOLEAN }

\* response.clone() on a Response whose body was consumed: the Fetch standard makes
\* it throw a TypeError; the Response stub of jest.setup.js returns a fresh object
cloneThrows(r) == runtime = "standard"

Responses == ErrorResponses \cup OkResponses

\* the values Math.random() takes, in tenths (Math.random() < 1)
RandomDraws == {0, 9}

-----------------------------------------------------------------------------
(* class FetchError *)

\* a faulty variant: the attempt is recorded counting from 0
FetchError_zeroBased(type, att, status, retryAfter) ==
    [type |-> type, attempt |-> att - 1, status |-> status, retryAfter |-> retryAfter]

FetchError(type, att, status, retryAfter) ==
    [type |-> type, attempt |-> att, status |-> status, retryAfter |-> retryAfter]

\* a faulty variant: the ceiling is compared two attempts late
shouldRetry_lateCeiling(e, maxRetries) ==
    IF e.attempt > maxRetries + 1 THEN FALSE
    ELSE IF e.type = NETWORK THEN TRUE
    ELSE IF e.type = SERVER /\ e.status # Some(413) THEN TRUE
    ELSE IF e.type = RATE_LIMIT THEN TRUE
    ELSE FALSE

\* a faulty variant: timeouts are retried like network errors
shouldRetry_timeouts(e, maxRetries) ==
    IF e.attempt >= maxRetries THEN FALSE
    ELSE IF e.type = NETWORK \/ e.type = TIMEOUT THEN TRUE
    ELSE IF e.type = SERVER /\ e.status # Some(413) THEN TRUE
    ELSE IF e.type = RATE_LIMIT THEN TRUE
    ELSE FALSE

shouldRetry(e, maxRetries) ==
    IF e.attempt >= maxRetries THEN FALSE
    ELSE IF e.type = NETWORK THEN TRUE
    ELSE IF e.type = SERVER /\ e.status # Some(413) THEN TRUE
    ELSE IF e.type = RATE_LIMIT THEN TRUE
    ELSE FALSE

\* a faulty variant: the exponent is the attempt, not the attempt less one
exponentialDelay_offByOne(e, baseDelay) == baseDelay * Pow2(e.attempt)

\* const exponentialDelay = baseDelay * Math.pow(2, this.attempt - 1)
exponentialDelay(e, baseDelay) == baseDelay * Pow2(e.attempt - 1)

\* a faulty variant: the delay a Retry-After header asks for is waited in full
getRetryDelay_uncappedHeader(e, baseDelay, maxDelay, rnd) ==
    IF IsSome(e.retryAfter) /\ Val(e.retryAfter) > 0
    THEN Val(e.retryAfter) * 1000
    ELSE LET exp == exponentialDelay(e, baseDelay)
             jitter == (rnd * 3 * exp) \div 100
         IN  Min(exp + jitter, maxDelay)

\* rnd is the value of Math.random() in tenths
getRetryDelay(e, baseDelay, maxDelay, rnd) ==
    IF IsSome(e.retryAfter) /\ Val(e.retryAfter) > 0
    THEN Min(Val(e.retryAfter) * 1000, maxDelay)
    ELSE LET exp == exponentialDelay(e, baseDelay)
             jitter == (rnd * 3 * exp) \div 100
         IN  Min(exp + jitter, maxDelay)

parseRetryAfter(r) ==
    LET h == r.retryAfter IN
    CASE h.kind = "absent"  -> None
      [] h.kind = "seconds" -> Some(h.n)
      [] h.kind = "date"    -> Some(Max(0, CeilSeconds(h.n)))
      [] OTHER              -> None

\* the whole seconds a Retry-After header asks the client to wait, when it states any
RetryAfterSeconds(h) ==
    CASE h.kind = "seconds"          -> Some(h.n)
      [] h.kind = "date" /\ h.n > 0  -> Some((h.n + 999) \div 1000)
      [] h.kind = "date"             -> Some(0)
      [] OTHER                       -> None

getErrorTypeFromStatus(status) ==
    IF status >= 500 THEN SERVER
    ELSE IF status = 429 THEN RATE_LIMIT
    ELSE IF status >= 400 THEN CLIENT
    ELSE UNKNOWN

\* the FetchError createErrorFromResponse returns when nothing in it throws
createErrorFromResponse(r, att) ==
    FetchError(getErrorTypeFromStatus(r.status), att, Some(r.status), parseRetryAfter(r))

shouldRetryRequest(status) ==
    IF status = 408 \/ status = 502 \/ status = 503 \/ status = 504 THEN TRUE
    ELSE IF status = 429 THEN TRUE
    ELSE IF status >= 400 /\ status < 500 THEN FALSE
    ELSE status >= 500

getMaxRetries(status) ==
    IF status = 429 THEN 4
    ELSE IF status = 408 \/ status = 502 \/ status = 503 \/ status = 504 \/ status >= 500 THEN 3
    ELSE 0

-----------------------------------------------------------------------------
(* fetchWithRetry *)

\* a faulty variant: createErrorFromResponse is called outside the try block
EnclosingCatch_narrowTry(site) ==
    CASE site = "fetch"       -> "outer"
      [] site = "body"        -> "inner"
      [] site = "errorBody"   -> "ignored"
      [] site = "createError" -> "none"

\* which catch clause receives an exception raised at a place of fetchWithRetry
EnclosingCatch(site) ==
    CASE site = "fetch"       -> "outer"     \* await fetch(...)             try 445 / catch 506
      [] site = "body"        -> "inner"     \* response.json()/text()/blob() try 456 / catch 472
      [] site = "errorBody"   -> "ignored"   \* body of an error response     try 392 / catch 407
      [] site = "createError" -> "outer"     \* createErrorFromResponse       try 445 / catch 506

\* what the network did in an attempt that failed, for the bookkeeping of the run
StatusClass(status) ==
    IF status >= 500 THEN "5xx" ELSE IF status = 429 THEN "429" ELSE "4xx"

\* the values fetchWithRetry resolves to, and the rejection of its promise
Success(data) == [success |-> TRUE, data |-> data, error |-> None, rejected |-> FALSE]
Failure(e) == [success |-> FALSE, data |-> "", error |-> Some(e), rejected |-> FALSE]
Rejected == [success |-> FALSE, data |-> "", error |-> None, rejected |-> TRUE]

\* the bookkeeping of which kinds of failure the run has seen
Track(kind) ==
    IF persistent = None THEN Some(kind)
    ELSE IF persistent = Some(kind) THEN persistent
    ELSE Some("mixed")

\* a faulty variant: a failure that is not to be retried is not returned either, and
\* the call never settles
RetryOrReturn_neverSettles(e) ==
    /\ IF shouldRetry(e, opts.retries)
       THEN \E rnd \in RandomDraws :
              /\ wait' = Some([attempt |-> e.attempt, type |-> e.type,
                               class |-> IF IsSome(resp) THEN StatusClass(Val(resp).status) ELSE "none",
                               asked |-> IF IsSome(resp) THEN RetryAfterSeconds(Val(resp).retryAfter) ELSE None,
                               delay |-> getRetryDelay(e, opts.backoff, opts.maxBackoff, rnd)])
              /\ prevWait' = wait
              /\ attempt' = attempt + 1
              /\ pc' = "loop"
              /\ resp' = None
              /\ result' = result
       ELSE UNCHANGED <<result, pc, wait, prevWait, attempt, resp>>

\* lines 488-505 and 531-548: retry after a delay, or return the failure
RetryOrReturn(e) ==
    /\ IF shouldRetry(e, opts.retries)
       THEN \E rnd \in RandomDraws :
              /\ wait' = Some([attempt |-> e.attempt, type |-> e.type,
                               class |-> IF IsSome(resp) THEN StatusClass(Val(resp).status) ELSE "none",
                               asked |-> IF IsSome(resp) THEN RetryAfterSeconds(Val(resp).retryAfter) ELSE None,
                               delay |-> getRetryDelay(e, opts.backoff, opts.maxBackoff, rnd)])
              /\ prevWait' = wait
              /\ attempt' = attempt + 1
              /\ pc' = "loop"
              /\ resp' = None
              /\ result' = result
       ELSE /\ result' = Some(Failure(e))
            /\ pc' = "done"
            /\ UNCHANGED <<wait, prevWait, attempt, resp>>

\* the catch clause of line 506 for an exception named exc
CatchOuter(exc) ==
    RetryOrReturn(IF exc = "AbortError"
                  THEN FetchError(TIMEOUT, attempt, None, None)
                  ELSE FetchError(NETWORK, attempt, None, None))

\* an exception leaves fetchWithRetry: the returned promise rejects
Reject ==
    /\ result' = Some(Rejected)
    /\ pc' = "done"
    /\ UNCHANGED <<wait, prevWait, attempt, resp>>

\* lines 440-448: a new attempt arms the abort timer and issues the call
AttemptFetch ==
    /\ pc = "loop"
    /\ pc' = "fetching"
    /\ timerArmed' = TRUE
    /\ calls' = calls + 1
    /\ UNCHANGED <<runtime, caller, opts, attempt, resp, wait, prevWait, result, persistent>>
    /\ UNCHANGED wfVars
    /\ UNCHANGED decVars
    /\ UNCHANGED coVars

\* lines 448-454, 461-463, 486: fetch resolves with a response
FetchResolve(r) ==
    /\ pc = "fetching"
    /\ timerArmed' = FALSE
    /\ resp' = Some(r)
    /\ IF r.ok
       THEN IF r.ctype = "sse"
            THEN /\ result' = Some(Success("response"))
                 /\ pc' = "done"
            ELSE /\ pc' = "body"
                 /\ result' = result
       ELSE /\ pc' = "errbody"
            /\ result' = result
    /\ UNCHANGED <<runtime, caller, opts, attempt, calls, wait, prevWait, persistent>>
    /\ UNCHANGED wfVars
    /\ UNCHANGED decVars
    /\ UNCHANGED coVars

\* lines 506-549: fetch rejects, by the abort timer ("AbortError") or a transport failure
FetchReject(exc) ==
    /\ pc = "fetching"
    /\ exc = "AbortError" => timerArmed
    /\ timerArmed' = FALSE
    /\ persistent' = Track(IF exc = "AbortError" THEN TIMEOUT ELSE NETWORK)
    /\ IF EnclosingCatch("fetch") = "outer" THEN CatchOuter(exc) ELSE Reject
    /\ UNCHANGED <<runtime, caller, opts, calls>>
    /\ UNCHANGED wfVars
    /\ UNCHANGED decVars
    /\ UNCHANGED coVars

\* lines 455-482: the body of an ok response is read and parsed
ReadBody ==
    /\ pc = "body"
    /\ LET r == Val(resp) IN
       IF r.bodyOk
       THEN /\ result' = Some(Success(r.ctype))
            /\ UNCHANGED persistent
       ELSE IF EnclosingCatch("body") = "inner"
            THEN /\ result' = Some(Failure(FetchError(PARSE, attempt, None, None)))
                 /\ persistent' = Track(PARSE)
            ELSE /\ result' = Some(Rejected)
                 /\ UNCHANGED persistent
    /\ pc' = "done"
    /\ UNCHANGED <<runtime, caller, opts, attempt, calls, timerArmed, resp, wait, prevWait>>
    /\ UNCHANGED wfVars
    /\ UNCHANGED decVars
    /\ UNCHANGED coVars

\* lines 486-505 with createErrorFromResponse (382-416): a non-ok response
ErrorResponse ==
    /\ pc = "errbody"
    /\ LET r == Val(resp) IN
       /\ persistent' = Track(StatusClass(r.status))
       /\ IF cloneThrows(r)
          THEN IF EnclosingCatch("createError") = "outer" THEN CatchOuter("TypeError") ELSE Reject
          ELSE RetryOrReturn(createErrorFromResponse(r, attempt))
    /\ UNCHANGED <<runtime, caller, opts, calls, timerArmed>>
    /\ UNCHANGED wfVars
    /\ UNCHANGED decVars
    /\ UNCHANGED coVars

FetchNext ==
    \/ AttemptFetch
    \/ \E r \in Responses : FetchResolve(r)
    \/ \E exc \in {"AbortError", "TypeError"} : FetchReject(exc)
    \/ ReadBody
    \/ ErrorResponse

-----------------------------------------------------------------------------
(* StreamEvent and WorkflowState *)

CONVERSATION_RESPONSE_STARTED == "conversation.response.started"
TOOL_EXECUTION_STARTED == "tool.execution.started"
TOOL_EXECUTION_DONE == "tool.execution.done"
AGENT_HANDOFF_STARTED == "agent.handoff.started"
MESSAGE_OUTPUT_DELTA == "message.output.delta"
CONVERSATION_RESPONSE_DONE == "conversation.response.done"
\* StreamEventType.UNKNOWN: the enum declares no such member, so the expression is undefined
UNKNOWN_EVENT == "undefined"

\* a tool name that is no string (a number, an object): toolName.split is no function,
\* and the call of it throws inside the try block of lines 493-512
NOT_A_STRING == "(not a string)"

\* event.data with the fields processStreamEvent reads, each present or not
NoData == [conversation_id |-> None, content |-> None, agent_name |-> None, name |-> None,
           outputs |-> None]

Event(type, data) == [type |-> type, data |-> data]

\* mapEventType: the event name of a frame to the StreamEventType value
mapEventType(eventType) ==
    IF eventType \in {CONVERSATION_RESPONSE_STARTED, TOOL_EXECUTION_STARTED, TOOL_EXECUTION_DONE,
                      AGENT_HANDOFF_STARTED, MESSAGE_OUTPUT_DELTA, CONVERSATION_RESPONSE_DONE}
    THEN eventType
    ELSE UNKNOWN_EVENT

\* a complete frame of the stream: the text of its event: line and its parsed data: line
Frame(name, data) == [name |-> name, data |-> data]

\* the frames a stream delivers; outputs is the text of a tool's outputs, by whether it holds a URL
Frames ==
    { Frame(CONVERSATION_RESPONSE_STARTED, [NoData EXCEPT !.conversation_id = Some("conv_1")]),
      Frame(CONVERSATION_RESPONSE_STARTED, NoData),
      Frame(MESSAGE_OUTPUT_DELTA, [NoData EXCEPT !.content = Some("A")]),
      Frame(MESSAGE_OUTPUT_DELTA, NoData),
      Frame(AGENT_HANDOFF_STARTED, [NoData EXCEPT !.agent_name = Some("Websearch")]),
      Frame(AGENT_HANDOFF_STARTED, [NoData EXCEPT !.agent_name = Some("Library")]),
      Frame(AGENT_HANDOFF_STARTED, NoData),
      Frame(TOOL_EXECUTION_STARTED, [NoData EXCEPT !.name = Some("web_search.run")]),
      Frame(TOOL_EXECUTION_DONE, [NoData EXCEPT !.name = Some("web_search.run"),
                                                !.outputs = Some("http")]),
      Frame(TOOL_EXECUTION_DONE, [NoData EXCEPT !.name = Some("web_search.run"),
                                                !.outputs = Some("documents")]),
      Frame(TOOL_EXECUTION_DONE, [NoData EXCEPT !.name = Some(NOT_A_STRING),
                                                !.outputs = Some("http")]),
      Frame(TOOL_EXECUTION_DONE, NoData),
      Frame(CONVERSATION_RESPONSE_DONE, NoData),
      Frame("message.output.done", NoData) }

\* the requests executeWorkflow is given: start, append, restart
Requests ==
    { [kind |-> "start", conversationId |-> None],
      [kind |-> "append", conversationId |-> Some("conv_0")],
      [kind |-> "restart", conversationId |-> Some("conv_0")] }

initialAgentName == "Library"

\* the state the constructor and resetWorkflowState build
InitialWorkflowState ==
    [conversationId |-> None, currentAgent |-> None, workflowPath |-> <<>>,
     accumulatedContent |-> <<>>, sources |-> <<>>, isProcessing |-> FALSE,
     error |-> None, rawEvents |-> <<>>]

\* Array.prototype.includes
Includes(seq, x) == \E i \in 1..Len(seq) : seq[i] = x

\* the text appended on a handoff
HandoffMarker(name) == <<"\n\n**Handoff to ", name, "**\n\n">>

\* a faulty variant: a delta replaces the content instead of being appended to it
processStreamEvent_overwrite(st, event) ==
    CASE event.type = CONVERSATION_RESPONSE_STARTED ->
           [st EXCEPT !.conversationId = event.data.conversation_id]
      [] event.type = MESSAGE_OUTPUT_DELTA ->
           [st EXCEPT !.accumulatedContent = event.data.content]
      [] event.type = AGENT_HANDOFF_STARTED ->
           LET newAgentName == IF IsSome(event.data.agent_name)
                               THEN Val(event.data.agent_name) ELSE "Unknown Agent"
           IN  [st EXCEPT !.currentAgent = Some(newAgentName),
                          !.workflowPath = IF Includes(@, newAgentName) THEN @
                                           ELSE Append(@, newAgentName),
                          !.accumulatedContent = @ \o HandoffMarker(newAgentName)]
      [] event.type = TOOL_EXECUTION_DONE ->
           IF IsSome(event.data.name) /\ IsSome(event.data.outputs)
              /\ Val(event.data.outputs) = "http"
              /\ Val(event.data.name) # NOT_A_STRING
           THEN [st EXCEPT !.sources = Append(@, [title |-> Val(event.data.name),
                                                  url |-> "http-match",
                                                  source |-> "web_search"])]
           ELSE st
      [] OTHER -> st

\* a faulty variant: every handoff pushes the agent on the path
processStreamEvent_alwaysPush(st, event) ==
    CASE event.type = CONVERSATION_RESPONSE_STARTED ->
           [st EXCEPT !.conversationId = event.data.conversation_id]
      [] event.type = MESSAGE_OUTPUT_DELTA ->
           [st EXCEPT !.accumulatedContent = @ \o event.data.content]
      [] event.type = AGENT_HANDOFF_STARTED ->
           LET newAgentName == IF IsSome(event.data.agent_name)
                               THEN Val(event.data.agent_name) ELSE "Unknown Agent"
           IN  [st EXCEPT !.currentAgent = Some(newAgentName),
                          !.workflowPath = Append(@, newAgentName),
                          !.accumulatedContent = @ \o HandoffMarker(newAgentName)]
      [] event.type = TOOL_EXECUTION_DONE ->
           IF IsSome(event.data.name) /\ IsSome(event.data.outputs)
              /\ Val(event.data.outputs) = "http"
              /\ Val(event.data.name) # NOT_A_STRING
           THEN [st EXCEPT !.sources = Append(@, [title |-> Val(event.data.name),
                                                  url |-> "http-match",
                                                  source |-> "web_search"])]
           ELSE st
      [] OTHER -> st

\* a faulty variant: a handoff starts the content afresh with its marker
processStreamEvent_freshOnHandoff(st, event) ==
    CASE event.type = CONVERSATION_RESPONSE_STARTED ->
           [st EXCEPT !.conversationId = event.data.conversation_id]
      [] event.type = MESSAGE_OUTPUT_DELTA ->
           [st EXCEPT !.accumulatedContent = @ \o event.data.content]
      [] event.type = AGENT_HANDOFF_STARTED ->
           LET newAgentName == IF IsSome(event.data.agent_name)
                               THEN Val(event.data.agent_name) ELSE "Unknown Agent"
           IN  [st EXCEPT !.currentAgent = Some(newAgentName),
                          !.workflowPath = IF Includes(@, newAgentName) THEN @
                                           ELSE Append(@, newAgentName),
                          !.accumulatedContent = HandoffMarker(newAgentName)]
      [] event.type = TOOL_EXECUTION_DONE ->
           IF IsSome(event.data.name) /\ IsSome(event.data.outputs)
              /\ Val(event.data.outputs) = "http"
              /\ Val(event.data.name) # NOT_A_STRING
           THEN [st EXCEPT !.sources = Append(@, [title |-> Val(event.data.name),
                                                  url |-> "http-match",
                                                  source |-> "web_search"])]
           ELSE st
      [] OTHER -> st

\* a faulty variant: an event of unknown type is recorded as the error of the run
processStreamEvent_unknownFails(st, event) ==
    CASE event.type = CONVERSATION_RESPONSE_STARTED ->
           [st EXCEPT !.conversationId = event.data.conversation_id]
      [] event.type = MESSAGE_OUTPUT_DELTA ->
           [st EXCEPT !.accumulatedContent = @ \o event.data.content]
      [] event.type = AGENT_HANDOFF_STARTED ->
           LET newAgentName == IF IsSome(event.data.agent_name)
                               THEN Val(event.data.agent_name) ELSE "Unknown Agent"
           IN  [st EXCEPT !.currentAgent = Some(newAgentName),
                          !.workflowPath = IF Includes(@, newAgentName) THEN @
                                           ELSE Append(@, newAgentName),
                          !.accumulatedContent = @ \o HandoffMarker(newAgentName)]
      [] event.type = TOOL_EXECUTION_DONE ->
           IF IsSome(event.data.name) /\ IsSome(event.data.outputs)
              /\ Val(event.data.outputs) = "http"
              /\ Val(event.data.name) # NOT_A_STRING
           THEN [st EXCEPT !.sources = Append(@, [title |-> Val(event.data.name),
                                                  url |-> "http-match",
                                                  source |-> "web_search"])]
           ELSE st
      [] event.type = UNKNOWN_EVENT ->
           [st EXCEPT !.error = Some(<<"Received unknown stream event type">>)]
      [] OTHER -> st

\* a faulty variant: the event that reports the end of the response ends the run
processStreamEvent_doneEnds(st, event) ==
    CASE event.type = CONVERSATION_RESPONSE_STARTED ->
           [st EXCEPT !.conversationId = event.data.conversation_id]
      [] event.type = MESSAGE_OUTPUT_DELTA ->
           [st EXCEPT !.accumulatedContent = @ \o event.data.content]
      [] event.type = AGENT_HANDOFF_STARTED ->
           LET newAgentName == IF IsSome(event.data.agent_name)
                               THEN Val(event.data.agent_name) ELSE "Unknown Agent"
           IN  [st EXCEPT !.currentAgent = Some(newAgentName),
                          !.workflowPath = IF Includes(@, newAgentName) THEN @
                                           ELSE Append(@, newAgentName),
                          !.accumulatedContent = @ \o HandoffMarker(newAgentName)]
      [] event.type = TOOL_EXECUTION_DONE ->
           IF IsSome(event.data.name) /\ IsSome(event.data.outputs)
              /\ Val(event.data.outputs) = "http"
              /\ Val(event.data.name) # NOT_A_STRING
           THEN [st EXCEPT !.sources = Append(@, [title |-> Val(event.data.name),
                                                  url |-> "http-match",
                                                  source |-> "web_search"])]
           ELSE st
      [] event.type = CONVERSATION_RESPONSE_DONE ->
           [st EXCEPT !.isProcessing = FALSE]
      [] OTHER -> st

\* a faulty variant: what the extraction of a source throws is recorded as the error
\* of the run
processStreamEvent_toolThrows(st, event) ==
    CASE event.type = CONVERSATION_RESPONSE_STARTED ->
           [st EXCEPT !.conversationId = event.data.conversation_id]
      [] event.type = MESSAGE_OUTPUT_DELTA ->
           [st EXCEPT !.accumulatedContent = @ \o event.data.content]
      [] event.type = AGENT_HANDOFF_STARTED ->
           LET newAgentName == IF IsSome(event.data.agent_name)
                               THEN Val(event.data.agent_name) ELSE "Unknown Agent"
           IN  [st EXCEPT !.currentAgent = Some(newAgentName),
                          !.workflowPath = IF Includes(@, newAgentName) THEN @
                                           ELSE Append(@, newAgentName),
                          !.accumulatedContent = @ \o HandoffMarker(newAgentName)]
      [] event.type = TOOL_EXECUTION_DONE ->
           IF IsSome(event.data.name) /\ IsSome(event.data.outputs)
              /\ Val(event.data.outputs) = "http"
              /\ Val(event.data.name) = NOT_A_STRING
           THEN [st EXCEPT !.error = Some(<<"toolName.split is not a function">>)]
           ELSE IF IsSome(event.data.name) /\ IsSome(event.data.outputs)
              /\ Val(event.data.outputs) = "http"
           THEN [st EXCEPT !.sources = Append(@, [title |-> Val(event.data.name),
                                                  url |-> "http-match",
                                                  source |-> "web_search"])]
           ELSE st
      [] OTHER -> st

\* processStreamEvent: the state after the event
processStreamEvent(st, event) ==
    CASE event.type = CONVERSATION_RESPONSE_STARTED ->
           [st EXCEPT !.conversationId = event.data.conversation_id]
      [] event.type = MESSAGE_OUTPUT_DELTA ->
           [st EXCEPT !.accumulatedContent = @ \o event.data.content]
      [] event.type = AGENT_HANDOFF_STARTED ->
           LET newAgentName == IF IsSome(event.data.agent_name)
                               THEN Val(event.data.agent_name) ELSE "Unknown Agent"
           IN  [st EXCEPT !.currentAgent = Some(newAgentName),
                          !.workflowPath = IF Includes(@, newAgentName) THEN @
                                           ELSE Append(@, newAgentName),
                          !.accumulatedContent = @ \o HandoffMarker(newAgentName)]
      [] event.type = TOOL_EXECUTION_DONE ->
           IF IsSome(event.data.name) /\ IsSome(event.data.outputs)
              /\ Val(event.data.outputs) = "http"
              /\ Val(event.data.name) # NOT_A_STRING
           THEN [st EXCEPT !.sources = Append(@, [title |-> Val(event.data.name),
                                                  url |-> "http-match",
                                                  source |-> "web_search"])]
           ELSE st
      [] OTHER -> st

\* error.message of what executeWorkflow catches
ErrorMessage(err) == err.message

\* what startStream throws
FetchFailure(e) == [kind |-> "FetchError", message |-> <<"fetch", e.type>>, fetchError |-> Some(e)]
BodyMissing == [kind |-> "Error", message |-> <<"Stream body missing from response">>, fetchError |-> None]
\* what reader.read() rejects with when the channel fails
ChannelError == [kind |-> "TypeError", message |-> <<"read failed">>, fetchError |-> None]
\* what parseEventStream throws when reader.read() rejects
StreamParsingError ==
    [kind |-> "Error", message |-> <<"Stream parsing error: ">> \o ChannelError.message,
     fetchError |-> None]

WorkflowSuccess(st) ==
    [success |-> TRUE, error |-> None, content |-> st.accumulatedContent,
     conversation_id |-> IF IsSome(st.conversationId) THEN Val(st.conversationId) ELSE "unknown_conv_id",
     stepName |-> st.workflowPath[Len(st.workflowPath)],
     workflowPath |-> st.workflowPath, sources |-> st.sources]
WorkflowFailure(err) ==
    [success |-> FALSE, error |-> Some(err), content |-> <<>>, conversation_id |-> "",
     stepName |-> "", workflowPath |-> <<>>, sources |-> <<>>]

\* no coordinator of the heap model exists
CoordinatorIdle ==
    /\ objects = <<>>
    /\ arrays = <<>>
    /\ currentWorkflowState = 0
    /\ runs = <<>>
    /\ ended = {}
    /\ copy = <<>>

-----------------------------------------------------------------------------
(* Text and bytes of an event stream *)

\* A text is a sequence of characters, one-character strings; the one character
\* outside ASCII that the streams use is the e with acute accent
E_ACUTE == "U+00E9"
\* what the TextDecoder puts for bytes that are no UTF-8
REPLACEMENT == "U+FFFD"

\* A byte is written as its ASCII character, or as its hexadecimal value
LeadBytes == {"C3"}
ContinuationBytes == {"A9"}

\* the bytes the server writes for a character
Utf8Bytes(c) == IF c = E_ACUTE THEN <<"C3", "A9">> ELSE <<c>>

\* the bytes of a text: character i starts at byte First(i)
Utf8Encode(text) ==
    LET Wide(i) == Len(Utf8Bytes(text[i])) = 2
        First(i) == i + Cardinality({j \in 1..(i - 1) : Wide(j)})
        Last(i) == IF Wide(i) THEN First(i) + 1 ELSE First(i)
        n == Len(text) + Cardinality({j \in 1..Len(text) : Wide(j)})
    IN  [p \in 1..n |->
            LET i == CHOOSE k \in 1..Len(text) : First(k) <= p /\ p <= Last(k)
            IN  Utf8Bytes(text[i])[p - First(i) + 1]]

\* the character two bytes stand for
Utf8Char(lead, cont) == IF lead = "C3" /\ cont = "A9" THEN E_ACUTE ELSE REPLACEMENT

\* decoder.decode(value, { stream: true }): the text of the bytes, given the bytes of
\* an unfinished character the decoder kept from the chunk before, and what it keeps
\* now.  A lead byte and the continuation byte after it make one character; a lead
\* byte followed by another byte, and a continuation byte that follows no lead byte,
\* make U+FFFD; a lead byte at the end is kept.
Utf8Decode(pending, bytes) ==
    LET all == pending \o bytes
        At(i) ==
            IF all[i] \in LeadBytes
            THEN IF i = Len(all) THEN <<>>
                 ELSE IF all[i + 1] \in ContinuationBytes THEN <<Utf8Char(all[i], all[i + 1])>>
                 ELSE <<REPLACEMENT>>
            ELSE IF all[i] \in ContinuationBytes
            THEN IF i > 1 /\ all[i - 1] \in LeadBytes THEN <<>> ELSE <<REPLACEMENT>>
            ELSE <<all[i]>>
        Full(c) == c # <<>>
        chars == SelectSeq([i \in 1..Len(all) |-> At(i)], Full)
    IN  [text |-> [k \in 1..Len(chars) |-> chars[k][1]],
         pending |-> IF all # <<>> /\ all[Len(all)] \in LeadBytes
                     THEN <<all[Len(all)]>> ELSE <<>>]

NL == <<"\n">>
\* the frame terminator /\n\n/
TERMINATOR == <<"\n", "\n">>
EVENT_FIELD == <<"e", "v", "e", "n", "t", ":">>
DATA_FIELD == <<"d", "a", "t", "a", ":">>

\* String.prototype.startsWith
StartsWith(s, prefix) == Len(s) >= Len(prefix) /\ SubSeq(s, 1, Len(prefix)) = prefix

\* the place of the first occurrence of sep in s, 0 when there is none
IndexOf(s, sep) ==
    LET hits == {i \in 1..(Len(s) - Len(sep) + 1) : SubSeq(s, i, i + Len(sep) - 1) = sep}
    IN  IF hits = {} THEN 0 ELSE CHOOSE i \in hits : \A j \in hits : i <= j

\* String.prototype.split with a separator that is no empty text
RECURSIVE Split(_, _)
Split(s, sep) ==
    LET i == IndexOf(s, sep)
    IN  IF i = 0 THEN <<s>>
        ELSE <<SubSeq(s, 1, i - 1)>> \o Split(SubSeq(s, i + Len(sep), Len(s)), sep)

\* String.prototype.replace(pattern, '') with a text pattern: the first occurrence goes
RemoveFirst(s, pattern) ==
    LET i == IndexOf(s, pattern)
    IN  IF i = 0 THEN s ELSE SubSeq(s, 1, i - 1) \o SubSeq(s, i + Len(pattern), Len(s))

WhiteSpace == {" ", "\n", "\r", "\t"}

\* String.prototype.trim
Trim(s) ==
    LET inked == {i \in 1..Len(s) : s[i] \notin WhiteSpace}
    IN  IF inked = {} THEN <<>>
        ELSE SubSeq(s, CHOOSE i \in inked : \A j \in inked : i <= j,
                       CHOOSE i \in inked : \A j \in inked : i >= j)

\* the words of the streams, spelled out
Spelling ==
    (MESSAGE_OUTPUT_DELTA :> <<"m", "e", "s", "s", "a", "g", "e", ".", "o", "u", "t", "p", "u", "t", ".", "d", "e",
      "l", "t", "a">>)
    @@ (TOOL_EXECUTION_DONE :> <<"t", "o", "o", "l", ".", "e", "x", "e", "c", "u", "t", "i", "o", "n", ".", "d", "o",
      "n", "e">>)
    @@ ("ping" :> <<"p", "i", "n", "g">>)

\* the string a text is, for the texts that are words above
StringOf(text) ==
    IF \E w \in DOMAIN Spelling : Spelling[w] = text
    THEN CHOOSE w \in DOMAIN Spelling : Spelling[w] = text
    ELSE "(other text)"

JSON_EMPTY_OBJECT == <<"{", "}">>
JSON_CONTENT == <<"{", "\"", "c", "o", "n", "t", "e", "n", "t", "\"", ":", "\"", E_ACUTE, "\"", "}">>

\* JSON.parse: the value, or nothing when it throws a SyntaxError
JSONparse(text) ==
    IF text = JSON_EMPTY_OBJECT THEN Some(NoData)
    ELSE IF text = JSON_CONTENT THEN Some([NoData EXCEPT !.content = Some(E_ACUTE)])
    ELSE None

\* event.data when JSON.parse failed: the raw string
RawData(text) == [raw |-> text]

-----------------------------------------------------------------------------
(* ConversationService.parseEventStream *)

\* lines 610-633: one line of a frame
ParseLine(event, line) ==
    IF Trim(line) = <<>> THEN event
    ELSE IF StartsWith(line, EVENT_FIELD)
    THEN LET eventTypeStr == Trim(RemoveFirst(line, EVENT_FIELD))
         IN  [event EXCEPT !.type = mapEventType(StringOf(eventTypeStr))]
    ELSE IF StartsWith(line, DATA_FIELD)
    THEN LET dataStr == Trim(RemoveFirst(line, DATA_FIELD))
         IN  [event EXCEPT !.data = IF IsSome(JSONparse(dataStr)) THEN Val(JSONparse(dataStr))
                                    ELSE RawData(dataStr)]
    ELSE event

RECURSIVE ParseLines(_, _)
ParseLines(event, lines) ==
    IF lines = <<>> THEN event ELSE ParseLines(ParseLine(event, Head(lines)), Tail(lines))

\* lines 603-633: the event of a frame
ParseFrame(raw) == ParseLines(Event(UNKNOWN_EVENT, NoData), Split(raw, NL))

\* line 636: only an event whose type is not undefined is yielded
Yields(event) == event.type # "undefined"

\* the text of a frame: its lines, joined by newlines
RECURSIVE Lines(_)
Lines(ls) ==
    IF Len(ls) = 1 THEN ls[1] ELSE ls[1] \o NL \o Lines(Tail(ls))

EventLine(name) == EVENT_FIELD \o Spelling[name]
DataLine(text) == DATA_FIELD \o text
\* a line that is neither an event: nor a data: line
ID_LINE == <<"i", "d", ":", "7">>

\* the texts a server streams
\* Two frames of known names; the second has a line the decoder does not know
StreamKnown ==
    Lines(<<EventLine(MESSAGE_OUTPUT_DELTA), DataLine(JSON_CONTENT)>>) \o TERMINATOR
    \o Lines(<<ID_LINE, EventLine(TOOL_EXECUTION_DONE), DataLine(JSON_EMPTY_OBJECT)>>) \o TERMINATOR

\* A frame of an unknown name, a newline too many, a frame of a known name with data
\* that is no JSON and a space after the colon, and the start of a frame that never ends
StreamUnknown ==
    Lines(<<EventLine("ping"), DataLine(JSON_EMPTY_OBJECT)>>) \o TERMINATOR
    \o NL \o Lines(<<EVENT_FIELD \o <<" ">> \o Spelling[MESSAGE_OUTPUT_DELTA],
                     DataLine(Spelling["ping"])>>) \o TERMINATOR
    \o EVENT_FIELD

\* A frame without event: line, then a frame of an unknown name with an unknown line
StreamBare ==
    DataLine(JSON_CONTENT) \o TERMINATOR
    \o Lines(<<ID_LINE, EventLine("ping"), DataLine(JSON_EMPTY_OBJECT)>>) \o TERMINATOR

\* A frame of a known name, then a whole frame of a known name after which the server
\* closes the channel without the terminator
StreamTrailing ==
    Lines(<<EventLine(MESSAGE_OUTPUT_DELTA), DataLine(JSON_EMPTY_OBJECT)>>) \o TERMINATOR
    \o Lines(<<EventLine(TOOL_EXECUTION_DONE), DataLine(JSON_EMPTY_OBJECT)>>) \o NL

Streams ==
    {Utf8Encode(StreamKnown), Utf8Encode(StreamUnknown), Utf8Encode(StreamBare),
     Utf8Encode(StreamTrailing)}

\* the reader before getReader()
NoReader == [locked |-> FALSE, pending |-> FALSE, releases |-> 0, releasedPending |-> FALSE]

\* a faulty variant: the lock is released after the loop, not in a finally block
FinallyRuns_notOnThrow(exit) == exit \in {"break", "return"}

\* lines 585-647: the finally block runs however the try block is left: by break on
\* done, by the throw of the catch clause, by the consumer's return() at a yield
FinallyRuns(exit) == exit \in {"break", "throw", "return"}

\* lines 644-647: reader.releaseLock()
Finally(r, exit) ==
    IF FinallyRuns(exit)
    THEN [r EXCEPT !.locked = FALSE, !.releases = @ + 1, !.releasedPending = @ \/ r.pending]
    ELSE r

\* a faulty variant: the text after the last terminator is thrown away
Remainder_dropped(ps) == <<>>

\* line 597: buffer = parts.pop() || ''
Remainder(ps) == ps[Len(ps)]

\* what the channel did by cutting the stream after its byte number at
CutKind(bytes, at) ==
    IF at >= Len(bytes) THEN {}
    ELSE IF bytes[at] \in LeadBytes THEN {"character"}
    ELSE IF bytes[at] = "\n" /\ bytes[at + 1] = "\n" /\ (at = 1 \/ bytes[at - 1] # "\n")
    THEN {"terminator"}
    ELSE {}

\* line 581: the first next() of the consumer starts the body; the reader locks the stream
GetReader ==
    /\ dpc = "created"
    /\ reader' = [reader EXCEPT !.locked = TRUE, !.pending = TRUE]
    /\ dpc' = "reading"
    /\ UNCHANGED <<stream, sent, channel, carry, buffer, parts, log, cuts>>
    /\ UNCHANGED <<runtime, caller, fetchVars, wfVars, coVars>>

\* lines 587-597: reader.read() resolves with the next n bytes of the stream
ReadChunk(n) ==
    /\ dpc = "reading"
    /\ channel = "open"
    /\ n \in 1..(Len(stream) - sent)
    /\ LET value == SubSeq(stream, sent + 1, sent + n)
           decoded == Utf8Decode(carry, value)
           ps == Split(buffer \o decoded.text, TERMINATOR)
       IN  /\ carry' = decoded.pending
           /\ buffer' = Remainder(ps)
           /\ parts' = SubSeq(ps, 1, Len(ps) - 1)
    /\ sent' = sent + n
    /\ cuts' = cuts \cup CutKind(stream, sent + n)
    /\ reader' = [reader EXCEPT !.pending = FALSE]
    /\ dpc' = "frames"
    /\ UNCHANGED <<stream, channel, log>>
    /\ UNCHANGED <<runtime, caller, fetchVars, wfVars, coVars>>

\* a faulty variant: when the channel closes, what the buffer holds is decoded as a
\* last frame
ReadDone_flush ==
    /\ dpc = "reading"
    /\ channel = "open"
    /\ sent = Len(stream)
    /\ channel' = "closed"
    /\ reader' = Finally([reader EXCEPT !.pending = FALSE], "break")
    /\ dpc' = "returned"
    /\ log' = IF Trim(buffer) = <<>> THEN log
              ELSE Append(log, [raw |-> buffer, event |-> ParseFrame(buffer),
                                yielded |-> Yields(ParseFrame(buffer))])
    /\ UNCHANGED <<stream, sent, carry, buffer, parts, cuts>>
    /\ UNCHANGED <<runtime, caller, fetchVars, wfVars, coVars>>

\* lines 588 and 644-647: the server has closed the channel: done, break, finally
ReadDone ==
    /\ dpc = "reading"
    /\ channel = "open"
    /\ sent = Len(stream)
    /\ channel' = "closed"
    /\ reader' = Finally([reader EXCEPT !.pending = FALSE], "break")
    /\ dpc' = "returned"
    /\ UNCHANGED <<stream, sent, carry, buffer, parts, log, cuts>>
    /\ UNCHANGED <<runtime, caller, fetchVars, wfVars, coVars>>

\* lines 641-647: reader.read() rejects: catch, throw new Error, finally
ReadError ==
    /\ dpc = "reading"
    /\ channel = "open"
    /\ channel' = "errored"
    /\ reader' = Finally([reader EXCEPT !.pending = FALSE], "throw")
    /\ dpc' = "threw"
    /\ UNCHANGED <<stream, sent, carry, buffer, parts, log, cuts>>
    /\ UNCHANGED <<runtime, caller, fetchVars, wfVars, coVars>>

\* a faulty variant: the next read is issued as soon as an event is yielded
FrameLoop_readAhead ==
    /\ dpc = "frames"
    /\ IF parts = <<>>
       THEN /\ dpc' = "reading"
            /\ reader' = [reader EXCEPT !.pending = TRUE]
            /\ UNCHANGED <<parts, log>>
       ELSE LET raw == Head(parts)
                event == ParseFrame(raw)
            IN  /\ parts' = Tail(parts)
                /\ reader' = [reader EXCEPT !.pending = Trim(raw) # <<>> /\ Yields(event)]
                /\ IF Trim(raw) = <<>>
                   THEN UNCHANGED <<log, dpc>>
                   ELSE /\ log' = Append(log, [raw |-> raw, event |-> event,
                                               yielded |-> Yields(event)])
                        /\ dpc' = IF Yields(event) THEN "yielded" ELSE "frames"
    /\ UNCHANGED <<stream, sent, channel, carry, buffer, cuts>>
    /\ UNCHANGED <<runtime, caller, fetchVars, wfVars, coVars>>

\* lines 599-639: the for loop takes the next frame of the chunk: an empty one is
\* skipped, another is parsed and yielded unless its type is undefined; with no frame
\* left the while loop reads again
FrameLoop ==
    /\ dpc = "frames"
    /\ IF parts = <<>>
       THEN /\ dpc' = "reading"
            /\ reader' = [reader EXCEPT !.pending = TRUE]
            /\ UNCHANGED <<parts, log>>
       ELSE LET raw == Head(parts)
                event == ParseFrame(raw)
            IN  /\ parts' = Tail(parts)
                /\ reader' = reader
                /\ IF Trim(raw) = <<>>
                   THEN UNCHANGED <<log, dpc>>
                   ELSE /\ log' = Append(log, [raw |-> raw, event |-> event,
                                               yielded |-> Yields(event)])
                        /\ dpc' = IF Yields(event) THEN "yielded" ELSE "frames"
    /\ UNCHANGED <<stream, sent, channel, carry, buffer, cuts>>
    /\ UNCHANGED <<runtime, caller, fetchVars, wfVars, coVars>>

\* the consumer's for await asks for the next event: the generator resumes after the yield
ConsumerNext ==
    /\ dpc = "yielded"
    /\ dpc' = "frames"
    /\ UNCHANGED <<stream, sent, channel, reader, carry, buffer, parts, log, cuts>>
    /\ UNCHANGED <<runtime, caller, fetchVars, wfVars, coVars>>

\* the consumer leaves its for await (break, return, or a throw of its loop body):
\* return() ends the generator at the yield, and the finally block runs
ConsumerReturn ==
    /\ dpc = "yielded"
    /\ reader' = Finally(reader, "return")
    /\ dpc' = "cancelled"
    /\ UNCHANGED <<stream, sent, channel, carry, buffer, parts, log, cuts>>
    /\ UNCHANGED <<runtime, caller, fetchVars, wfVars, coVars>>

DecoderNext ==
    \/ GetReader
    \/ \E n \in 1..Len(stream) : ReadChunk(n)
    \/ ReadDone
    \/ ReadError
    \/ FrameLoop
    \/ ConsumerNext
    \/ ConsumerReturn

\* no stream is being decoded
DecoderIdle ==
    /\ stream = <<>>
    /\ sent = 0
    /\ channel = "open"
    /\ reader = NoReader
    /\ carry = <<>>
    /\ buffer = <<>>
    /\ parts = <<>>
    /\ log = <<>>
    /\ dpc = "none"
    /\ cuts = {}

\* parseEventStream(body) was called on the body of a response that streams one of Streams
DecoderInit ==
    /\ runtime = "standard"
    /\ caller = "decoder"
    /\ opts = defaultOptions
    /\ pc = "idle"
    /\ attempt = 1
    /\ calls = 1
    /\ timerArmed = FALSE
    /\ resp = None
    /\ wait = None
    /\ prevWait = None
    /\ result = None
    /\ persistent = None
    /\ request = [kind |-> "start", conversationId |-> None]
    /\ wfpc = "idle"
    /\ ws = InitialWorkflowState
    /\ updates = <<>>
    /\ wfResult = None
    /\ stream \in Streams
    /\ sent = 0
    /\ channel = "open"
    /\ reader = NoReader
    /\ carry = <<>>
    /\ buffer = <<>>
    /\ parts = <<>>
    /\ log = <<>>
    /\ dpc = "created"
    /\ cuts = {}
    /\ CoordinatorIdle

-----------------------------------------------------------------------------
(* WorkflowCoordinator.executeWorkflow over ConversationService.startStream *)

\* lines 411-434 and startStream 312-330: reset, first update, and the send begins
ExecuteWorkflow ==
    /\ caller = "workflow"
    /\ wfpc = "idle"
    /\ LET st0 == [InitialWorkflowState EXCEPT !.isProcessing = TRUE,
                                               !.currentAgent = Some(initialAgentName),
                                               !.workflowPath = <<initialAgentName>>]
       IN  /\ updates' = <<st0>>
           /\ ws' = [st0 EXCEPT !.conversationId = request.conversationId]
    /\ wfpc' = "sending"
    /\ pc' = "loop"
    /\ UNCHANGED <<runtime, caller, opts, attempt, calls, timerArmed, resp, wait,
                   prevWait, result, persistent, request, wfResult>>
    /\ UNCHANGED decVars
    /\ UNCHANGED coVars

\* a faulty variant: the catch block starts the state afresh before it records the error
WorkflowCatch_reset(err) ==
    LET failed == [InitialWorkflowState EXCEPT !.error = Some(ErrorMessage(err))]
        final == [failed EXCEPT !.isProcessing = FALSE]
    IN  /\ ws' = final
        /\ updates' = updates \o <<failed, final>>
        /\ wfResult' = Some(WorkflowFailure(err))
        /\ wfpc' = "done"

\* lines 460-467: catch (error set, update, failure returned) and finally (update)
WorkflowCatch(err) ==
    LET failed == [ws EXCEPT !.error = Some(ErrorMessage(err))]
        final == [failed EXCEPT !.isProcessing = FALSE]
    IN  /\ ws' = final
        /\ updates' = updates \o <<failed, final>>
        /\ wfResult' = Some(WorkflowFailure(err))
        /\ wfpc' = "done"

\* startStream 332-340 after fetchWithRetry returned: throw the failure, or hand the
\* body to parseEventStream; the frame of fetchWithRetry is gone
StartStreamReturn ==
    /\ wfpc = "sending"
    /\ pc = "done"
    /\ LET res == Val(result) IN
       IF ~res.success
       THEN WorkflowCatch(FetchFailure(Val(res.error)))
       ELSE IF ~(res.data = "response" /\ Val(resp).hasBody)
       THEN WorkflowCatch(BodyMissing)
       ELSE /\ wfpc' = "streaming"
            /\ UNCHANGED <<ws, updates, wfResult>>
    /\ pc' = "idle"
    /\ attempt' = 1
    /\ resp' = None
    /\ wait' = None
    /\ prevWait' = None
    /\ persistent' = None
    /\ UNCHANGED <<runtime, caller, opts, calls, timerArmed, result, request>>
    /\ UNCHANGED decVars
    /\ UNCHANGED coVars

\* parseEventStream 599-638 and executeWorkflow 435-439: a complete frame is decoded;
\* the event is yielded unless its type is undefined, and a yielded event is logged,
\* processed and reported
StreamEvent(frame) ==
    /\ wfpc = "streaming"
    /\ Len(ws.rawEvents) < MaxEvents
    /\ LET event == Event(mapEventType(frame.name), frame.data)
           st == processStreamEvent([ws EXCEPT !.rawEvents = Append(@, event)], event)
       IN  IF event.type = UNKNOWN_EVENT
           THEN UNCHANGED <<ws, updates>>
           ELSE /\ ws' = st
                /\ updates' = Append(updates, st)
    /\ UNCHANGED <<runtime, caller, fetchVars, request, wfpc, wfResult>>
    /\ UNCHANGED decVars
    /\ UNCHANGED coVars

\* lines 441-459 and 464-467: the stream ends, the result is built, finally runs
StreamEnd ==
    /\ wfpc = "streaming"
    /\ wfResult' = Some(WorkflowSuccess(ws))
    /\ ws' = [ws EXCEPT !.isProcessing = FALSE]
    /\ updates' = Append(updates, ws')
    /\ wfpc' = "done"
    /\ UNCHANGED <<runtime, caller, fetchVars, request>>
    /\ UNCHANGED decVars
    /\ UNCHANGED coVars

\* a faulty variant: a failed stream is answered by sending the request again
StreamError_resend ==
    /\ wfpc = "streaming"
    /\ wfpc' = "sending"
    /\ pc' = "loop"
    /\ result' = None
    /\ UNCHANGED <<runtime, caller, opts, attempt, calls, timerArmed, resp, wait, prevWait,
                   persistent, request, ws, updates, wfResult>>
    /\ UNCHANGED decVars
    /\ UNCHANGED coVars

\* parseEventStream 641-644 and executeWorkflow 460-467: reading the channel fails
StreamError ==
    /\ wfpc = "streaming"
    /\ WorkflowCatch(StreamParsingError)
    /\ UNCHANGED <<runtime, caller, fetchVars, request>>
    /\ UNCHANGED decVars
    /\ UNCHANGED coVars

WorkflowNext ==
    \/ ExecuteWorkflow
    \/ StartStreamReturn
    \/ \E frame \in Frames : StreamEvent(frame)
    \/ StreamEnd
    \/ StreamError

vars == <<runtime, caller, fetchVars, wfVars, decVars, coVars>>

Init ==
    /\ runtime \in {"standard", "stub"}
    /\ caller \in {"fetch", "workflow"}
    /\ opts \in (IF caller = "fetch" THEN Options ELSE {defaultOptions})
    /\ pc = (IF caller = "fetch" THEN "loop" ELSE "idle")
    /\ attempt = 1
    /\ calls = 0
    /\ timerArmed = FALSE
    /\ resp = None
    /\ wait = None
    /\ prevWait = None
    /\ result = None
    /\ persistent = None
    /\ request \in (IF caller = "fetch" THEN {[kind |-> "start", conversationId |-> None]} ELSE Requests)
    /\ wfpc = "idle"
    /\ ws = InitialWorkflowState
    /\ updates = <<>>
    /\ wfResult = None
    /\ DecoderIdle
    /\ CoordinatorIdle

Next == FetchNext \/ WorkflowNext

Spec == Init /\ [][Next]_vars

\* a direct call of fetchWithRetry
FetchInit == Init /\ caller = "fetch"

\* a direct call of fetchWithRetry in which every await settles: fetch resolves or
\* rejects, the body is read, the wait before the next attempt ends
FetchLiveSpec == FetchInit /\ [][FetchNext]_vars /\ WF_vars(FetchNext)

\* one call of parseEventStream, consumed by a for await loop
DecoderSpec == DecoderInit /\ [][DecoderNext]_vars

-----------------------------------------------------------------------------
(* One WorkflowCoordinator over an injected ConversationService.  Objects and
   arrays are kept by identity: this.currentWorkflowState names an object, and
   the list fields of an object name arrays, so that two references to one
   object or one array see each other's writes. *)

\* the two sends on the coordinator: the first and the second call of executeWorkflow
Sends == {1, 2}

\* what tells the events of one send's stream from the other's
ConversationOf(r) == IF r = 1 THEN "conv_1" ELSE "conv_2"
ContentOf(r) == IF r = 1 THEN "A" ELSE "B"

\* the events the stream of the injected service delivers to send r; the last is
\* an event whose type is StreamEventType.UNKNOWN
ServiceEvents(r) ==
    { Event(CONVERSATION_RESPONSE_STARTED, [NoData EXCEPT !.conversation_id = Some(ConversationOf(r))]),
      Event(MESSAGE_OUTPUT_DELTA, [NoData EXCEPT !.content = Some(ContentOf(r))]),
      Event(AGENT_HANDOFF_STARTED, [NoData EXCEPT !.agent_name = Some("Websearch")]),
      Event(UNKNOWN_EVENT, NoData) }

\* the requests of the sends: a start, and an append to a conversation
ServiceRequests ==
    { [kind |-> "start", conversationId |-> None],
      [kind |-> "append", conversationId |-> Some("conv_0")] }

\* the object literal of the constructor and of resetWorkflowState, its three array
\* literals being the arrays n+1, n+2, n+3
StateLiteral(n) ==
    [conversationId |-> None, currentAgent |-> None, workflowPath |-> n + 1,
     accumulatedContent |-> <<>>, sources |-> n + 2, isProcessing |-> FALSE,
     error |-> None, rawEvents |-> n + 3]

\* what a holder of a reference to the object reads through it, the arrays being arrs
Reads(obj, arrs) ==
    [obj EXCEPT !.workflowPath = arrs[obj.workflowPath],
                !.sources = arrs[obj.sources],
                !.rawEvents = arrs[obj.rawEvents]]

\* the statements of executeWorkflow write through this.currentWorkflowState: the
\* scalar fields of the object and, by push, its arrays take the values of st
WriteCurrent(st) ==
    LET c == currentWorkflowState
        obj == objects[c]
    IN  /\ objects' = [objects EXCEPT ![c] =
                          [@ EXCEPT !.conversationId = st.conversationId,
                                    !.currentAgent = st.currentAgent,
                                    !.accumulatedContent = st.accumulatedContent,
                                    !.isProcessing = st.isProcessing,
                                    !.error = st.error]]
        /\ arrays' = [arrays EXCEPT ![obj.workflowPath] = st.workflowPath,
                                    ![obj.sources] = st.sources,
                                    ![obj.rawEvents] = st.rawEvents]

\* onUpdate?.(this.currentWorkflowState): the callback receives the object c, which
\* shows st during the call
Call(c, st) == [state |-> c, shown |-> st]

\* a send is between its first and its last statement
Active(r) == runs[r].pc \in {"sending", "streaming"}

\* lines 411-433: a new object replaces the current one, is marked and reported, takes
\* the conversation id of the request, and the send begins
Begin(r, req) ==
    /\ runs[r].pc = "idle"
    /\ \A q \in Sends : q < r => runs[q].pc # "idle"
    /\ LET c == Len(objects) + 1
           arrs == arrays \o << <<initialAgentName>>, <<>>, <<>> >>
           obj == [StateLiteral(Len(arrays)) EXCEPT !.isProcessing = TRUE,
                                                     !.currentAgent = Some(initialAgentName)]
       IN  /\ objects' = Append(objects, [obj EXCEPT !.conversationId = req.conversationId])
           /\ arrays' = arrs
           /\ currentWorkflowState' = c
           /\ runs' = [runs EXCEPT ![r].pc = "sending",
                                   ![r].calls = <<Call(c, Reads(obj, arrs))>>]
    /\ UNCHANGED <<ended, copy>>
    /\ UNCHANGED <<runtime, caller, fetchVars, wfVars, decVars>>

\* executeWorkflow is called while no other call of it is under way
BeginRun(r, req) ==
    /\ \A q \in Sends : ~Active(q)
    /\ Begin(r, req)

\* executeWorkflow is called while another call of it awaits its send or its stream
BeginOverlapping(r, req) ==
    /\ \E q \in Sends : Active(q)
    /\ Begin(r, req)

\* lines 460-467: catch (error set, update, failure returned) and finally (update), on
\* whatever object is current
Catch(r, err) ==
    LET c == currentWorkflowState
        failed == [Reads(objects[c], arrays) EXCEPT !.error = Some(ErrorMessage(err))]
        final == [failed EXCEPT !.isProcessing = FALSE]
    IN  /\ WriteCurrent(final)
        /\ runs' = [runs EXCEPT ![r].pc = "done",
                                ![r].calls = @ \o <<Call(c, failed), Call(c, final)>>,
                                ![r].result = Some(WorkflowFailure(err))]
        /\ ended' = ended \cup {c}
        /\ UNCHANGED <<currentWorkflowState, copy>>
        /\ UNCHANGED <<runtime, caller, fetchVars, wfVars, decVars>>

\* lines 425-432: the promise of the service is rejected
SendRejects(r) ==
    /\ runs[r].pc = "sending"
    /\ Catch(r, BodyMissing)

\* lines 425-432: the promise of the service resolves with the stream
SendResolves(r) ==
    /\ runs[r].pc = "sending"
    /\ runs' = [runs EXCEPT ![r].pc = "streaming"]
    /\ UNCHANGED <<objects, arrays, currentWorkflowState, ended, copy>>
    /\ UNCHANGED <<runtime, caller, fetchVars, wfVars, decVars>>

\* a faulty variant: only events of a known type are stored
Logged_knownOnly(st, event) ==
    IF event.type = UNKNOWN_EVENT THEN st ELSE [st EXCEPT !.rawEvents = Append(@, event)]

\* line 436: rawEvents.push(event)
Logged(st, event) == [st EXCEPT !.rawEvents = Append(@, event)]

\* lines 435-439: the stream delivers an event, which is stored, processed and reported
Deliver(r, event) ==
    /\ runs[r].pc = "streaming"
    /\ Len(runs[r].delivered) < MaxEvents
    /\ LET c == currentWorkflowState
           st == processStreamEvent(Logged(Reads(objects[c], arrays), event), event)
       IN  /\ WriteCurrent(st)
           /\ runs' = [runs EXCEPT ![r].delivered = Append(@, event),
                                   ![r].calls = Append(@, Call(c, st))]
    /\ UNCHANGED <<currentWorkflowState, ended, copy>>
    /\ UNCHANGED <<runtime, caller, fetchVars, wfVars, decVars>>

\* lines 450-456: sources, workflowPath and rawApiResponse of the response are the
\* arrays of the state object themselves
SharingArrays(response, obj) ==
    [success |-> response.success, error |-> response.error, content |-> response.content,
     conversation_id |-> response.conversation_id, stepName |-> response.stepName,
     workflowPath |-> obj.workflowPath, sources |-> obj.sources,
     rawApiResponse |-> obj.rawEvents]

\* lines 441-459 and 464-467: the stream ends; the result takes the content and the
\* arrays of the current object, and finally marks and reports that object
StreamEnds(r) ==
    /\ runs[r].pc = "streaming"
    /\ LET c == currentWorkflowState
           obj == objects[c]
           st == Reads(obj, arrays)
           final == [st EXCEPT !.isProcessing = FALSE]
       IN  /\ WriteCurrent(final)
           /\ runs' = [runs EXCEPT ![r].pc = "done",
                                   ![r].calls = Append(@, Call(c, final)),
                                   ![r].result = Some(SharingArrays(WorkflowSuccess(st), obj))]
           /\ ended' = ended \cup {c}
    /\ UNCHANGED <<currentWorkflowState, copy>>
    /\ UNCHANGED <<runtime, caller, fetchVars, wfVars, decVars>>

\* lines 435 and 460-467: the stream throws
StreamThrows(r) ==
    /\ runs[r].pc = "streaming"
    /\ Catch(r, StreamParsingError)

\* lines 547-549: a new object with the fields of the current one, arrays included
getWorkflowState ==
    /\ copy = <<>>
    /\ copy' = <<[value |-> objects[currentWorkflowState], written |-> FALSE]>>
    /\ UNCHANGED <<objects, arrays, currentWorkflowState, runs, ended>>
    /\ UNCHANGED <<runtime, caller, fetchVars, wfVars, decVars>>

\* the fields a caller may write in the value it was given
Fields == {"accumulatedContent", "isProcessing", "workflowPath", "sources", "rawEvents"}

\* what a caller pushes on a list of the value
Pushed(field) ==
    CASE field = "workflowPath" -> "Caller"
      [] field = "sources" -> [title |-> "caller", url |-> "caller", source |-> "caller"]
      [] field = "rawEvents" -> Event(CONVERSATION_RESPONSE_DONE, NoData)

\* the caller writes a scalar field of the value getWorkflowState returned, or pushes
\* on one of its lists
CallerModifies(field) ==
    /\ copy # <<>>
    /\ ~copy[1].written
    /\ LET value == copy[1].value IN
       CASE field = "accumulatedContent" ->
              /\ copy' = <<[value |-> [value EXCEPT !.accumulatedContent = <<"caller">>],
                            written |-> TRUE]>>
              /\ UNCHANGED arrays
         [] field = "isProcessing" ->
              /\ copy' = <<[value |-> [value EXCEPT !.isProcessing = ~@], written |-> TRUE]>>
              /\ UNCHANGED arrays
         [] OTHER ->
              /\ copy' = <<[copy[1] EXCEPT !.written = TRUE]>>
              /\ arrays' = [arrays EXCEPT ![value[field]] = Append(@, Pushed(field))]
    /\ UNCHANGED <<objects, currentWorkflowState, runs, ended>>
    /\ UNCHANGED <<runtime, caller, fetchVars, wfVars, decVars>>

\* new WorkflowCoordinator(conversationService), lines 384-396; no send was made yet
CoordinatorInit ==
    /\ runtime = "standard"
    /\ caller = "coordinator"
    /\ opts = defaultOptions
    /\ pc = "idle"
    /\ attempt = 1
    /\ calls = 0
    /\ timerArmed = FALSE
    /\ resp = None
    /\ wait = None
    /\ prevWait = None
    /\ result = None
    /\ persistent = None
    /\ request = [kind |-> "start", conversationId |-> None]
    /\ wfpc = "idle"
    /\ ws = InitialWorkflowState
    /\ updates = <<>>
    /\ wfResult = None
    /\ DecoderIdle
    /\ objects = <<StateLiteral(0)>>
    /\ arrays = << <<>>, <<>>, <<>> >>
    /\ currentWorkflowState = 1
    /\ runs = [r \in Sends |-> [pc |-> "idle", delivered |-> <<>>, calls |-> <<>>,
                                result |-> None]]
    /\ ended = {}
    /\ copy = <<>>

CoordinatorNext ==
    \E r \in Sends :
        \/ \E req \in ServiceRequests : BeginRun(r, req)
        \/ SendRejects(r)
        \/ SendResolves(r)
        \/ \E event \in ServiceEvents(r) : Deliver(r, event)
        \/ StreamEnds(r)
        \/ StreamThrows(r)

\* sends on one coordinator, one after the other
CoordinatorSpec == CoordinatorInit /\ [][CoordinatorNext]_vars

OverlapNext ==
    \/ CoordinatorNext
    \/ \E r \in Sends, req \in ServiceRequests : BeginOverlapping(r, req)

\* sends on one coordinator, the second of which may begin while the first is under way
OverlapSpec == CoordinatorInit /\ [][OverlapNext]_vars

CallerNext ==
    \/ CoordinatorNext
    \/ getWorkflowState
    \/ \E field \in Fields : CallerModifies(field)

\* sends on one coordinator, one after the other, and a caller that asks for the state
\* and writes in what it is given
CallerSpec == CoordinatorInit /\ [][CallerNext]_vars

-----------------------------------------------------------------------------
(* Properties of fetchWithRetry *)

\* fetchWithRetry has returned a failure value
Failed == pc = "done" /\ IsSome(result) /\ ~Val(result).success /\ ~Val(result).rejected
ReturnedError == Val(Val(result).error)

\* the status of the response of the last attempt is one of S
LastStatusIn(S) == IsSome(resp) /\ Val(resp).status \in S

\* C1: while every failure of the run is a 5xx response, a call with a retry budget
\* retries >= 0 has issued at most retries+1 network calls, at every point up to and
\* including the return of the failure.
C1_AtMostRetriesPlusOneCalls ==
    (opts.retries >= 0 /\ persistent = Some("5xx")) => calls <= opts.retries + 1

\* a persistently failing 5xx endpoint, given up on after the default budget was used
C1_Witness ==
    /\ Failed
    /\ persistent = Some("5xx")
    /\ opts.retries = DefaultRetries
    /\ calls = DefaultRetries

\* C2: while every failure of the run is a non-429 4xx response, exactly one network
\* call is made, and what is returned is a ClientError.
C2_ClientErrorSingleCall ==
    persistent = Some("4xx") =>
        /\ calls = 1
        /\ pc = "done" => (Failed /\ ReturnedError.type = CLIENT)

\* C3: the delay waited after a 429 response carrying Retry-After = N seconds, N > 0,
\* is at least N seconds.
C3_RetryAfterHonoured ==
    \A w \in {wait, prevWait} :
        (IsSome(w) /\ Val(w).class = "429" /\ IsSome(Val(w).asked) /\ Val(Val(w).asked) > 0)
            => Val(w).delay >= Val(Val(w).asked) * 1000

\* C4: after a 408, 502, 503 or 504 response the failure is returned only when the
\* attempt ceiling is reached; below it another call is issued.
C4_GatewayStatusesRetried ==
    (Failed /\ LastStatusIn({408, 502, 503, 504})) => attempt >= opts.retries

C6_RateLimitCeilingHigher ==
    (opts = defaultOptions /\ Failed) =>
        /\ persistent = Some("5xx") => calls <= DefaultRetries
        /\ persistent = Some("429") => calls > DefaultRetries

\* a wait that followed a 5xx response without Retry-After header
Backoff5xx(w) == IsSome(w) /\ Val(w).class = "5xx" /\ Val(w).asked = None
\* backoff * 2^(attempt-1), capped at maxBackoff
JitterFree(w) == Min(opts.backoff * Pow2(w.attempt - 1), opts.maxBackoff)

Retryable(e) == e.type \in {NETWORK, SERVER, RATE_LIMIT}

\* C9: the failure returned is that of the last attempt: its attempt field is the number
\* of network calls made, its kind fits what that attempt met, and a failure of a
\* retryable kind is returned only with the ceiling exhausted.
C9_LastFailureReturned ==
    Failed =>
        /\ ReturnedError.attempt = calls
        /\ ReturnedError.attempt = attempt
        /\ resp = None => ReturnedError.type \in {NETWORK, TIMEOUT}
        /\ LastStatusIn({200}) => ReturnedError.type = PARSE
        /\ (LastStatusIn(ErrorStatuses \cup {400}) /\ runtime = "stub") =>
               ReturnedError.status = Some(Val(resp).status)
        /\ Retryable(ReturnedError) => ReturnedError.attempt >= opts.retries

\* a 5xx failure returned after the default budget of attempts was used up
C9_Witness ==
    /\ Failed
    /\ ReturnedError.type = SERVER
    /\ opts.retries = DefaultRetries
    /\ ReturnedError.attempt = DefaultRetries

-----------------------------------------------------------------------------
(* Properties of a send *)

\* C10: once the event stream is being consumed no network call is made any more for
\* that send: fetchWithRetry stays returned, the call count stays, and a failure of the
\* stream ends executeWorkflow with a failure.
C10_NoCallOnceStreaming ==
    [][/\ wfpc = "streaming" =>
            /\ calls' = calls
            /\ pc' = "idle"
            /\ wfpc' \in {"streaming", "done"}
       /\ wfpc = "done" => (calls' = calls /\ wfpc' = "done")
       /\ StreamError => (wfpc' = "done" /\ ~Val(wfResult').success)]_vars

\* a stream that failed after an event, on a send whose first call had been retried
C10_Witness ==
    /\ wfpc = "done"
    /\ ~Val(wfResult).success
    /\ Val(Val(wfResult).error) = StreamParsingError
    /\ Len(ws.rawEvents) >= 1
    /\ calls >= 2

-----------------------------------------------------------------------------
(* Properties of parseEventStream *)

\* the events yielded so far, in the order of the yields
Yielded ==
    LET WasYielded(entry) == entry.yielded
        entries == SelectSeq(log, WasYielded)
    IN  [k \in 1..Len(entries) |-> entries[k].event]

NonBlank(raw) == Trim(raw) # <<>>

\* the frames of a text that are complete, that is, followed by the terminator, and
\* not empty
CompleteFrames(text) ==
    LET ps == Split(text, TERMINATOR)
    IN  SelectSeq(SubSeq(ps, 1, Len(ps) - 1), NonBlank)

\* the events parseEventStream yields when read() delivers all the bytes as one chunk
OneChunk(bytes) ==
    LET frames == CompleteFrames(Utf8Decode(<<>>, bytes).text)
    IN  SelectSeq([i \in 1..Len(frames) |-> ParseFrame(frames[i])], Yields)

IsPrefix(a, b) == Len(a) <= Len(b) /\ SubSeq(b, 1, Len(a)) = a

\* C11: however the channel cuts the stream into chunks, the events yielded are those
\* yielded when the whole stream arrives as one chunk: at every moment a prefix of
\* them, and all of them once the channel has closed.
C11_ChunkingInvariant ==
    /\ IsPrefix(Yielded, OneChunk(stream))
    /\ dpc = "returned" => Yielded = OneChunk(stream)

\* a stream of two events, read to its end, that was cut between the two newlines of
\* a terminator and between the two bytes of a character
C11_Witness ==
    /\ dpc = "returned"
    /\ cuts = {"terminator", "character"}
    /\ Len(Yielded) = 2

\* C12: one event is yielded for every complete non-empty frame, in the order of the
\* frames, and all of them have been yielded when the channel closes; after a read
\* error nothing more is yielded.
C12_OneEventPerFrame ==
    LET frames == CompleteFrames(Utf8Decode(<<>>, stream).text)
    IN  /\ Len(log) <= Len(frames)
        /\ \A i \in 1..Len(log) : log[i].raw = frames[i] /\ log[i].yielded
        /\ dpc = "returned" => (Len(log) = Len(frames) /\ channel = "closed")
        /\ dpc = "threw" => channel = "errored"

IsFieldLine(line) == StartsWith(line, EVENT_FIELD) \/ StartsWith(line, DATA_FIELD)
\* a line that is not blank and is neither an event: nor a data: line
IsOtherLine(line) == NonBlank(line) /\ ~IsFieldLine(line)
HasLine(raw, P(_)) == \E i \in 1..Len(Split(raw, NL)) : P(Split(raw, NL)[i])

\* C13: a frame that holds a line the decoder cannot use next to event: or data: lines
\* yields its event, which is the event of its event: and data: lines alone, and the
\* frames after it are decoded.
C13_MalformedLineTolerated ==
    LET frames == CompleteFrames(Utf8Decode(<<>>, stream).text)
    IN  /\ \A i \in 1..Len(log) :
              (HasLine(log[i].raw, IsOtherLine) /\ HasLine(log[i].raw, IsFieldLine)) =>
                  /\ log[i].yielded
                  /\ log[i].event = ParseFrame(Lines(SelectSeq(Split(log[i].raw, NL), IsFieldLine)))
        /\ dpc = "returned" => Len(log) = Len(frames)

KnownNames ==
    {CONVERSATION_RESPONSE_STARTED, TOOL_EXECUTION_STARTED, TOOL_EXECUTION_DONE,
     AGENT_HANDOFF_STARTED, MESSAGE_OUTPUT_DELTA, CONVERSATION_RESPONSE_DONE}

\* the event names the event: lines of a frame give
NamesOf(raw) ==
    {StringOf(Trim(RemoveFirst(Split(raw, NL)[i], EVENT_FIELD))) :
        i \in {j \in 1..Len(Split(raw, NL)) : StartsWith(Split(raw, NL)[j], EVENT_FIELD)}}

\* C14: a frame whose event name is none of the six known names is yielded, as an event
\* of the Unknown type, and the decoder does not fail on it.
C14_UnknownNamesYielded ==
    /\ \A i \in 1..Len(log) :
          (NamesOf(log[i].raw) # {} /\ NamesOf(log[i].raw) \cap KnownNames = {}) =>
              /\ log[i].event.type = UNKNOWN_EVENT
              /\ log[i].yielded
    /\ dpc = "threw" => channel = "errored"

\* C15: the reader is released on every way parseEventStream ends, once, and never
\* while a read is pending; until then the lock is held.
C15_ReaderReleasedOnce ==
    /\ reader.releases <= 1
    /\ ~reader.releasedPending
    /\ dpc \in {"returned", "threw", "cancelled"} => (reader.releases = 1 /\ ~reader.locked)
    /\ dpc \in {"reading", "frames", "yielded"} => (reader.releases = 0 /\ reader.locked)
    /\ reader.pending => dpc = "reading"

\* the stream failed after an event had been yielded, and the reader was released
C15_Witness ==
    /\ dpc = "threw"
    /\ Len(Yielded) >= 1
    /\ reader.releases = 1
    /\ ~reader.locked

\* C16: when the consumer stops iterating before the channel is exhausted, the channel
\* is closed, and the sequence has ended.
C16_CancelClosesChannel ==
    dpc = "cancelled" => (channel \in {"closed", "cancelled"} /\ ~reader.locked)

-----------------------------------------------------------------------------
(* Properties of the workflow state *)

\* what one event adds to the content: the content of a delta, the marker of a handoff
Contribution(event) ==
    IF event.type = MESSAGE_OUTPUT_DELTA
    THEN (IF IsSome(event.data.content) THEN <<Val(event.data.content)>> ELSE <<>>)
    ELSE IF event.type = AGENT_HANDOFF_STARTED
    THEN HandoffMarker(IF IsSome(event.data.agent_name) THEN Val(event.data.agent_name)
                       ELSE "Unknown Agent")
    ELSE <<>>

RECURSIVE Concatenation(_)
Concatenation(events) ==
    IF events = <<>> THEN <<>> ELSE Contribution(Head(events)) \o Concatenation(Tail(events))

HandoffAgent(event) ==
    IF IsSome(event.data.agent_name) THEN Val(event.data.agent_name) ELSE "Unknown Agent"

\* the path when each handoff appends its agent unless that agent is the last entry
RECURSIVE PathUnlessLast(_, _)
PathUnlessLast(path, events) ==
    IF events = <<>> THEN path
    ELSE LET event == Head(events)
             next == IF event.type = AGENT_HANDOFF_STARTED
                        /\ path[Len(path)] # HandoffAgent(event)
                     THEN Append(path, HandoffAgent(event)) ELSE path
         IN  PathUnlessLast(next, Tail(events))

\* C18: a handoff appends its agent to workflowPath if and only if the agent differs
\* from the last entry, so that Library -> Websearch -> Library gives three entries.
C18_AppendUnlessLast ==
    wfpc \in {"streaming", "done"} =>
        ws.workflowPath = PathUnlessLast(<<initialAgentName>>, ws.rawEvents)

NoAdjacentRepeat(path) == \A i \in 1..(Len(path) - 1) : path[i] # path[i + 1]

\* C19: workflowPath never holds the same agent twice in a row, in the state and in
\* every state reported to onUpdate.
C19_NoAdjacentRepeat ==
    /\ NoAdjacentRepeat(ws.workflowPath)
    /\ \A i \in 1..Len(updates) : NoAdjacentRepeat(updates[i].workflowPath)

\* a handoff to the agent that is the last entry, twice, left the path as it was
C19_Witness ==
    /\ wfpc = "streaming"
    /\ Len(ws.rawEvents) = 2
    /\ \A i \in 1..2 : /\ ws.rawEvents[i].type = AGENT_HANDOFF_STARTED
                       /\ HandoffAgent(ws.rawEvents[i]) = "Websearch"
    /\ ws.workflowPath = <<initialAgentName, "Websearch">>

\* C20: while a run is active every step leaves the content it found as a prefix of
\* the content it leaves, and an event that is processed adds exactly its contribution.
C20_ContentAppendOnly ==
    [][/\ wfpc \in {"sending", "streaming"} =>
             IsPrefix(ws.accumulatedContent, ws'.accumulatedContent)
       /\ (wfpc = "streaming" /\ Len(ws'.rawEvents) = Len(ws.rawEvents) + 1) =>
             ws'.accumulatedContent =
                 ws.accumulatedContent \o Contribution(ws'.rawEvents[Len(ws'.rawEvents)])]_vars

\* a handoff was processed after a delta, and the delta is still at the front
C20_Witness ==
    /\ wfpc = "streaming"
    /\ Len(ws.rawEvents) = 2
    /\ ws.rawEvents[2].type = AGENT_HANDOFF_STARTED
    /\ ws.accumulatedContent = <<"A">> \o HandoffMarker("Library")

-----------------------------------------------------------------------------
(* Properties of a failed or finished run *)

\* executeWorkflow has returned
Returned == wfpc = "done" /\ IsSome(wfResult)
RunFailed == Returned /\ ~Val(wfResult).success
RunSucceeded == Returned /\ Val(wfResult).success

LowerLayerFailures ==
    {ChannelError, BodyMissing}
    \cup (IF IsSome(result) /\ ~Val(result).success /\ IsSome(Val(result).error)
          THEN {FetchFailure(Val(Val(result).error))} ELSE {})

\* C25: the failure executeWorkflow returns is the failure the lower layer
\* produced, the FetchError of the send or the error of the channel, kind and
\* message as they were.
C25_FailureForwardedVerbatim ==
    RunFailed => Val(Val(wfResult).error) \in LowerLayerFailures

\* C28: a successful run over n events has called onUpdate n+1 times, and the
\* state of the last call has isProcessing false.
C28_OneUpdatePerEvent ==
    RunSucceeded => /\ Len(updates) = Len(ws.rawEvents) + 1
                    /\ ~updates[Len(updates)].isProcessing

\* a ToolExecutionDone event that carries a name and outputs
IsToolResult(event) ==
    event.type = TOOL_EXECUTION_DONE /\ IsSome(event.data.name) /\ IsSome(event.data.outputs)

\* one entry per tool result of the log: the name, the text of the outputs, the connector
SourcesOfLog(events) ==
    LET toolResults == SelectSeq(events, IsToolResult)
    IN  [i \in 1..Len(toolResults) |->
            [title |-> Val(toolResults[i].data.name),
             url |-> Val(toolResults[i].data.outputs),
             source |-> "web_search"]]

\* C29: every ToolExecutionDone event with a name and outputs has added exactly
\* one entry to sources, whose url is the text of the outputs, whether or not the
\* outputs hold a URL.
C29_OneSourcePerToolResult ==
    wfpc \in {"streaming", "done"} => ws.sources = SourcesOfLog(ws.rawEvents)

-----------------------------------------------------------------------------
(* Properties of the coordinator's state objects *)

\* the object the reset of send r created
StateOf(r) == runs[r].calls[1].state

\* what is read now through a reference to object c
Seen(c) == Reads(objects[c], arrays)

\* the result of send r, once it has returned
Succeeded(r) == runs[r].pc = "done" /\ Val(runs[r].result).success

UnknownEvent == Event(UNKNOWN_EVENT, NoData)

\* C21: once a run has ended on a state object, leaving it with isProcessing
\* false, no step of the coordinator changes a field of that object any more, a
\* further call of executeWorkflow included.
C21_EndedStateIsFinal ==
    [][\A c \in ended : Reads(objects'[c], arrays') = Reads(objects[c], arrays)]_vars

DeliversUnknown(r) ==
    /\ runs[r].pc = "streaming"
    /\ runs'[r].delivered = Append(runs[r].delivered, UnknownEvent)

\* C23: the delivery of an event of unknown type appends the event to the log and
\* changes no other field of the state; the run goes on with the next event, and
\* a stream that ends after such events leaves error null.
C23_UnknownOnlyLogged ==
    [][\A r \in Sends :
          /\ DeliversUnknown(r) =>
                /\ Reads(objects'[StateOf(r)], arrays') =
                      [Seen(StateOf(r)) EXCEPT !.rawEvents = Append(@, UnknownEvent)]
                /\ runs'[r].pc = "streaming"
          /\ (runs[r].pc = "streaming" /\ runs'[r].pc = "done"
              /\ Val(runs'[r].result).success) =>
                /\ Reads(objects'[StateOf(r)], arrays').error = None
                /\ Val(runs'[r].result).error = None]_vars

\* a stream of an event of unknown type and then a delta was consumed to its end
C23_Witness ==
    /\ Succeeded(1)
    /\ runs[1].delivered =
          <<UnknownEvent, Event(MESSAGE_OUTPUT_DELTA, [NoData EXCEPT !.content = Some("A")])>>
    /\ Seen(StateOf(1)).accumulatedContent = <<"A">>
    /\ Seen(StateOf(1)).error = None
    /\ Len(Seen(StateOf(1)).rawEvents) = 2

\* C26: the state onUpdate received at a call still shows, whenever the caller
\* looks at it later, what it showed during the call.
C26_UpdatesAreSnapshots ==
    \A r \in Sends :
        \A i \in 1..Len(runs[r].calls) :
            Seen(runs[r].calls[i].state) = runs[r].calls[i].shown

\* C27: whatever a caller writes in the value getWorkflowState returned, a scalar
\* field or a push on one of its lists, the state the coordinator works on, which
\* a later getWorkflowState copies, is unchanged.
C27_CopyIsDetached ==
    [][(\E field \in Fields : CallerModifies(field)) =>
          Reads(objects'[currentWorkflowState'], arrays') = Seen(currentWorkflowState)]_vars

\* C30: when two sends overlap on one coordinator, the result of each and every
\* state shown to its onUpdate hold the events, content, path and sources of its own
\* stream only.
C30_OverlappingSendsAreIndependent ==
    \A r \in Sends :
        /\ \A i \in 1..Len(runs[r].calls) :
              LET shown == runs[r].calls[i].shown IN
              /\ IsPrefix(shown.rawEvents, runs[r].delivered)
              /\ shown.accumulatedContent = Concatenation(shown.rawEvents)
        /\ Succeeded(r) =>
              LET response == Val(runs[r].result) IN
              /\ arrays[response.rawApiResponse] = runs[r].delivered
              /\ response.content = Concatenation(runs[r].delivered)


-----------------------------------------------------------------------------
(* Further properties of a run *)

\* the log holds the event that reports the end of the response
HasDone(events) == \E i \in 1..Len(events) : events[i].type = CONVERSATION_RESPONSE_DONE

\* C31: the event that reports the end of the response does not end the run: while
\* the stream is consumed after it the state stays active, nothing was returned, and
\* the events after it are processed like any other, a later delta being appended.
C31_DoneDoesNotEnd ==
    (wfpc = "streaming" /\ HasDone(ws.rawEvents)) =>
        /\ ws.isProcessing
        /\ wfResult = None
        /\ updates[Len(updates)].isProcessing
        /\ ws.accumulatedContent = Concatenation(ws.rawEvents)

\* a delta arrived after the event that reports the end of the response
C31_Witness ==
    /\ wfpc = "streaming"
    /\ ws.rawEvents = <<Event(CONVERSATION_RESPONSE_DONE, NoData),
                        Event(MESSAGE_OUTPUT_DELTA, [NoData EXCEPT !.content = Some("A")])>>
    /\ ws.accumulatedContent = <<"A">>
    /\ ws.isProcessing


-----------------------------------------------------------------------------
(* Further properties of fetchWithRetry *)

\* an attempt is under way: the call was issued and its result is not yet produced
AttemptUnderWay == pc \in {"fetching", "body", "errbody"}

\* C32: the abort timer of an attempt is armed for as long as the attempt is under
\* way, the reading of the response body included.
C32_TimerCoversAttempt == AttemptUnderWay => timerArmed


-----------------------------------------------------------------------------
(* Further properties of parseEventStream *)

\* C33: a read of the byte channel is pending only while the generator, resumed by
\* the consumer, has no frame of the chunks read so far left to visit: never while
\* a yielded event waits for the consumer, and every event of the bytes read so far
\* has then been yielded.
C33_NoReadAhead ==
    /\ reader.pending =>
          /\ dpc = "reading"
          /\ parts = <<>>
          /\ Yielded = OneChunk(SubSeq(stream, 1, sent))
    /\ dpc \in {"created", "yielded", "frames"} => ~reader.pending

\* an event was yielded and taken, and the next read is pending with bytes to come
C33_Witness ==
    /\ reader.pending
    /\ dpc = "reading"
    /\ Len(Yielded) = 1
    /\ sent < Len(stream)


\* what the text of the stream holds after its last terminator
Trailing(bytes) ==
    LET ps == Split(Utf8Decode(<<>>, bytes).text, TERMINATOR) IN ps[Len(ps)]

\* C37: when the channel closes while the buffer holds a frame that is not empty
\* and has no terminator, the sequence ends normally and that frame gives no event:
\* the frames decoded are the terminated ones, no more.
C37_TrailingFrameDropped ==
    (dpc = "returned" /\ NonBlank(Trailing(stream))) =>
        /\ channel = "closed"
        /\ buffer = Trailing(stream)
        /\ Len(log) = Len(CompleteFrames(Utf8Decode(<<>>, stream).text))
        /\ \A i \in 1..Len(log) : log[i].raw # buffer
        /\ Yielded = OneChunk(stream)

\* the channel closed after a whole frame of a known name that lacked its terminator
C37_Witness ==
    /\ dpc = "returned"
    /\ stream = Utf8Encode(StreamTrailing)
    /\ NonBlank(buffer)
    /\ Yields(ParseFrame(buffer))
    /\ Len(Yielded) = 1


\* the step is the delivery of a ToolExecutionDone event
DeliversToolResult ==
    /\ wfpc = "streaming"
    /\ Len(ws'.rawEvents) = Len(ws.rawEvents) + 1
    /\ ws'.rawEvents[Len(ws'.rawEvents)].type = TOOL_EXECUTION_DONE

\* C34: whatever a ToolExecutionDone event carries, its delivery does not end the
\* run; it appends the event to the log and at most one entry to sources, and leaves
\* conversationId, currentAgent, workflowPath, content and error as they were.
C34_ToolResultNeverFatal ==
    [][DeliversToolResult =>
          /\ wfpc' = "streaming"
          /\ wfResult' = None
          /\ ws' = [ws EXCEPT !.rawEvents = ws'.rawEvents, !.sources = ws'.sources]
          /\ IsPrefix(ws.sources, ws'.sources)
          /\ Len(ws'.sources) <= Len(ws.sources) + 1]_vars

\* a tool result whose name is no string was processed, then one without any payload
C34_Witness ==
    /\ wfpc = "streaming"
    /\ ws.rawEvents =
          <<Event(TOOL_EXECUTION_DONE, [NoData EXCEPT !.name = Some(NOT_A_STRING),
                                                       !.outputs = Some("http")]),
            Event(TOOL_EXECUTION_DONE, NoData)>>
    /\ ws.sources = <<>>
    /\ ws.error = None
    /\ ws.isProcessing


C35_FetchTerminates == <>(pc = "done" /\ IsSome(result) /\ ~Val(result).rejected)

\* a call with a negative budget has returned after its one attempt
C35_Witness ==
    /\ caller = "fetch"
    /\ pc = "done"
    /\ opts.retries < 0
    /\ calls = 1


-----------------------------------------------------------------------------
(* Further properties of the workflow state *)

\* a conversation id was known at some point of the run: from the request, or from a
\* ConversationStarted event of the log
IdKnown ==
    \/ IsSome(request.conversationId)
    \/ \E i \in 1..Len(ws.rawEvents) :
          /\ ws.rawEvents[i].type = CONVERSATION_RESPONSE_STARTED
          /\ IsSome(ws.rawEvents[i].data.conversation_id)

\* C38: once a conversation id is known in a run, conversationId is not null any
\* more, and a successful result does not carry the placeholder 'unknown_conv_id'.
C38_ConversationIdKept ==
    (wfpc \in {"sending", "streaming", "done"} /\ IdKnown) =>
        /\ IsSome(ws.conversationId)
        /\ RunSucceeded => Val(wfResult).conversation_id # "unknown_conv_id"

\* C39: in every state of a run currentAgent is the last entry of workflowPath, and
\* the stepName of a successful result is the agent current when the stream ended.
C39_CurrentAgentIsLastOfPath ==
    wfpc \in {"sending", "streaming", "done"} =>
        /\ ws.currentAgent = Some(ws.workflowPath[Len(ws.workflowPath)])
        /\ RunSucceeded => Some(Val(wfResult).stepName) = ws.currentAgent

\* C40: no state passed to onUpdate has an error and isProcessing true.
C40_NoHalfFinalisedUpdate ==
    \A i \in 1..Len(updates) : IsSome(updates[i].error) => ~updates[i].isProcessing


====
